---- MODULE Spec2Model ----
(***************************************************************************)
(* Model of the mp2p_icp registration engine: ICP_Base::align, its         *)
(* parameter preparation and the Horn multi-cloud iteration.               *)
(*                                                                         *)
(* Abstractions of the external libraries:                                 *)
(*  - a pose is a pair [t, r] of integers (one translation and one rotation *)
(*    coordinate); the SE(3) logarithm of the incremental pose is the      *)
(*    componentwise difference and its two block norms are absolute values; *)
(*  - a point layer is its number of points;                               *)
(*  - a ratio is a pair <<numerator, denominator>>, the literal 0 is       *)
(*    <<0, 1>>;                                                            *)
(*  - the matchers and the transform solver are external: their outcomes   *)
(*    are chosen nondeterministically in the iteration action.             *)
(***************************************************************************)
EXTENDS Integers, Sequences, FiniteSets, TLC

\* ---------------------------------------------------------------- bounds
MaxPts == 3
MaxPlanes == 1
MaxIter == 2
MaxTrans == 2
MaxRot == 1
MaxStep == 2
MaxPairs == 3
MaxScale == 2
MaxPairsPerLayer == 1
MaxCalls == 2
MaxWeight == 2
MaxLocal == 3
MaxSeed == 2
MaxClock == 2
MaxN == 12
MaxK == 8

\* ------------------------------------------------------------- constants
PT_LAYER_PLANE_CENTROIDS == "plane_centroids"
PT_LAYER_RAW == "raw"
PT_LAYER_EDGES == "edges"

\* Iteration order of std::map<std::string, ...>: lexicographic by name.
LayerOrder == <<PT_LAYER_EDGES, PT_LAYER_PLANE_CENTROIDS, PT_LAYER_RAW>>

LayerNames == {LayerOrder[i] : i \in 1..Len(LayerOrder)}

IterTermReason == {"Undefined", "NoPairings", "MaxIterations", "Stalled"}

thresholdDist == 1
thresholdAng == 0
PlaneCentroidExtraDist == 2

\* ------------------------------------------------------------ data model
Poses == [t : 0..MaxTrans, r : 0..MaxRot]

Scales == {1, MaxScale}

Zero == <<0, 1>>

IsZero(g) == g[1] = 0

\* Results(): the value of a freshly constructed Results object.
Results == [nIterations |-> 0, terminationReason |-> "Undefined",
            goodness |-> Zero, optimal_tf |-> [t |-> 0, r |-> 0],
            optimal_scale |-> 1]

\* A Results object left over from an earlier call of align.
StaleResults == [nIterations |-> MaxIter + 1, terminationReason |-> "Stalled",
                 goodness |-> <<1, 1>>, optimal_tf |-> [t |-> MaxTrans, r |-> MaxRot],
                 optimal_scale |-> MaxScale]

\* ICP_iteration_result{}: default member initialisers.
ICP_iteration_result == [success |-> FALSE, new_solution |-> [t |-> 0, r |-> 0],
                         new_scale |-> 1]

\* Pairings(): an empty aggregate.
Pairings == [paired_points |-> 0, paired_planes |-> 0]

PairingsEmpty(pr) == pr.paired_points = 0 /\ pr.paired_planes = 0

\* TMatchingParams{}: default member initialisers.
TMatchingParams == [maxDistForCorrespondence |-> 0,
                    maxAngularDistForCorrespondence |-> 0,
                    onlyKeepTheClosest |-> FALSE,
                    onlyUniqueRobust |-> FALSE,
                    decimation_other_map_points |-> 1,
                    offset_other_map_points |-> 0]

EmptyMap == [x \in {} |-> 0]

\* ICP_State(pcs1, pcs2): the registration state right after construction.
ICP_State == [layerOfLargestPc |-> "", currentPairings |-> Pairings,
              current_solution |-> [t |-> 0, r |-> 0], current_scale |-> 1,
              mres |-> EmptyMap, mps |-> EmptyMap]

CloudsOver(names, sizes, planes) ==
    {[point_layers |-> f, planes |-> n] :
        f \in UNION {[S -> sizes] : S \in SUBSET names}, n \in planes}

Max(a, b) == IF a >= b THEN a ELSE b

Min(a, b) == IF a <= b THEN a ELSE b

Abs(x) == IF x < 0 THEN -x ELSE x

VARIABLES pcs1, pcs2, init_guess, p, result, state, prev_solution,
          iter_result, pc, abortAt, hist,
          weight_pt2pt_layers, matchOut, mhist, tl, tlFirst, dec,
          calls, oracle

\* The variables of a call of align.
alignVars == <<pcs1, pcs2, init_guess, p, result, state, prev_solution,
               iter_result, pc, abortAt, hist>>

\* The variables of a matcher and of its calls (the clouds are pcs1, pcs2).
matcherVars == <<weight_pt2pt_layers, matchOut, mhist>>

\* The variables of the calls of transform_local_to_global.
transformVars == <<tl, tlFirst>>

\* The concurrent calls of align and the code outside that they call.
concVars == <<calls, oracle>>

vars == <<alignVars, matcherVars, transformVars, dec, concVars>>

inputs == <<pcs1, pcs2, init_guess, p>>

\* What a call of align leaves alone.
notAlign == <<matcherVars, transformVars, dec, concVars>>


Put(m, k, v) == [x \in DOMAIN m \cup {k} |-> IF x = k THEN v ELSE m[x]]

\* Ghost record: what the call has done so far (never read by the program).
HistInit == [prepared |-> FALSE, matcherCalls |-> 0, solverCalls |-> 0,
             iterations |-> 0, adopted |-> 0, continued |-> 0,
             poseAtMatch |-> [t |-> 0, r |-> 0],
             solverRan |-> FALSE, solverOk |-> FALSE, solverScale |-> 1,
             solverPose |-> [t |-> 0, r |-> 0],
             delta_xyz |-> 0, delta_rot |-> 0, lastOutcome |-> "none"]

\* --------------------------------------------------- prepareMatchingParams
\* std::max(1U, static_cast<unsigned>(size / (1.0 * maxPairsPerLayer)))
Decimation(size, maxPairsPerLayer) == Max(1, size \div maxPairsPerLayer)

\* Matching parameters of an ordinary point layer.
PointLayerParams(mp, size, par) ==
    [mp EXCEPT !.maxDistForCorrespondence = par.thresholdDist,
               !.maxAngularDistForCorrespondence = par.thresholdAng,
               !.onlyKeepTheClosest = TRUE,
               !.onlyUniqueRobust = FALSE,
               !.decimation_other_map_points = Decimation(size, par.maxPairsPerLayer),
               !.offset_other_map_points = 0]

\* Matching parameters of the layer of plane centroids.
PlaneLayerParams(mp, par) ==
    [mp EXCEPT !.maxDistForCorrespondence = par.thresholdDist + PlaneCentroidExtraDist,
               !.maxAngularDistForCorrespondence = 0,
               !.onlyKeepTheClosest = TRUE,
               !.decimation_other_map_points = 1]

LargerThanLargest_orEqual(size, pointCountLargestPc) == size >= pointCountLargestPc

\* Line 149: the layer is larger than the largest one so far.
LargerThanLargest(size, pointCountLargestPc) == size > pointCountLargestPc

\* The body of the loop over state.pc1.point_layers, from the i-th name of
\* the map order on; pointCountLargestPc is the running maximum.
RECURSIVE prepareFrom(_, _, _, _, _)
prepareFrom(i, st, pointCountLargestPc, cloud, par) ==
    IF i > Len(LayerOrder) THEN st
    ELSE LET name == LayerOrder[i] IN
      IF name \notin DOMAIN cloud.point_layers
      THEN prepareFrom(i + 1, st, pointCountLargestPc, cloud, par)
      ELSE
        LET is_layer_of_planes == (name = PT_LAYER_PLANE_CENTROIDS)
            mp == IF name \in DOMAIN st.mps THEN st.mps[name] ELSE TMatchingParams
            size == cloud.point_layers[name]
        IN IF ~is_layer_of_planes
           THEN IF name \notin par.weight_pt2pt_layers
                THEN prepareFrom(i + 1, [st EXCEPT !.mps = Put(st.mps, name, mp)],
                                 pointCountLargestPc, cloud, par)
                ELSE prepareFrom(i + 1,
                       [st EXCEPT !.mps = Put(st.mps, name, PointLayerParams(mp, size, par)),
                                  !.layerOfLargestPc =
                                      IF LargerThanLargest(size, pointCountLargestPc)
                                      THEN name
                                      ELSE st.layerOfLargestPc],
                       IF LargerThanLargest(size, pointCountLargestPc)
                       THEN size ELSE pointCountLargestPc,
                       cloud, par)
           ELSE prepareFrom(i + 1,
                  [st EXCEPT !.mps = Put(st.mps, name, PlaneLayerParams(mp, par))],
                  pointCountLargestPc, cloud, par)

prepareMatchingParams(st, cloud, par) == prepareFrom(1, st, 0, cloud, par)

\* ------------------------------------------------------------ align: entry
\* Layers of pcs1 that the weight configuration lists (loop of lines 45-52).
CountedLayers == DOMAIN pcs1.point_layers \cap p.weight_pt2pt_layers

RECURSIVE SumOver(_, _)
SumOver(f, S) == IF S = {} THEN 0
                 ELSE LET x == CHOOSE y \in S : TRUE IN f[x] + SumOver(f, S \ {x})

pointcount1 == SumOver(pcs1.point_layers, CountedLayers)

pointcount2 == SumOver(pcs2.point_layers, CountedLayers \cap DOMAIN pcs2.point_layers)

\* Variant: the check of the second cloud's point count is missing.
FailedPrecondition_noPointcount2 ==
    IF Cardinality(DOMAIN pcs1.point_layers) # Cardinality(DOMAIN pcs2.point_layers)
    THEN "ASSERT_EQUAL_layers"
    ELSE IF ~(DOMAIN pcs1.point_layers # {} \/ (pcs1.planes > 0 /\ pcs2.planes > 0))
    THEN "ASSERT_not_empty"
    ELSE IF \E L \in CountedLayers : L \notin DOMAIN pcs2.point_layers
    THEN "out_of_range_pcs2_at"
    ELSE IF ~(pointcount1 > 0 \/ pcs1.planes > 0)
    THEN "ASSERT_pointcount1"
    ELSE ""

\* Variant: the sizes of the layers present in both clouds are compared too.
FailedPrecondition_sizes ==
    IF Cardinality(DOMAIN pcs1.point_layers) # Cardinality(DOMAIN pcs2.point_layers)
    THEN "ASSERT_EQUAL_layers"
    ELSE IF ~(DOMAIN pcs1.point_layers # {} \/ (pcs1.planes > 0 /\ pcs2.planes > 0))
    THEN "ASSERT_not_empty"
    ELSE IF \E L \in CountedLayers : L \notin DOMAIN pcs2.point_layers
    THEN "out_of_range_pcs2_at"
    ELSE IF \E L \in DOMAIN pcs1.point_layers \cap DOMAIN pcs2.point_layers :
                pcs1.point_layers[L] # pcs2.point_layers[L]
    THEN "ASSERT_layer_sizes"
    ELSE IF ~(pointcount1 > 0 \/ pcs1.planes > 0)
    THEN "ASSERT_pointcount1"
    ELSE IF ~(pointcount2 > 0 \/ pcs2.planes > 0)
    THEN "ASSERT_pointcount2"
    ELSE ""

\* The first check of align that fails, "" when all of them pass.
FailedPrecondition ==
    IF Cardinality(DOMAIN pcs1.point_layers) # Cardinality(DOMAIN pcs2.point_layers)
    THEN "ASSERT_EQUAL_layers"
    ELSE IF ~(DOMAIN pcs1.point_layers # {} \/ (pcs1.planes > 0 /\ pcs2.planes > 0))
    THEN "ASSERT_not_empty"
    ELSE IF \E L \in CountedLayers : L \notin DOMAIN pcs2.point_layers
    THEN "out_of_range_pcs2_at"
    ELSE IF ~(pointcount1 > 0 \/ pcs1.planes > 0)
    THEN "ASSERT_pointcount1"
    ELSE IF ~(pointcount2 > 0 \/ pcs2.planes > 0)
    THEN "ASSERT_pointcount2"
    ELSE ""

\* Whether the failing check comes after "result = Results()".
AfterReset(f) == f \in {"out_of_range_pcs2_at", "ASSERT_pointcount1", "ASSERT_pointcount2"}

\* align, lines 35-62: preconditions, reset of the output, point counts,
\* construction of the state with the initial guess.
AlignEntry ==
    /\ pc = "start"
    /\ LET f == FailedPrecondition IN
       IF f # ""
       THEN /\ pc' = "aborted"
            /\ abortAt' = f
            /\ result' = IF AfterReset(f) THEN Results ELSE result
            /\ UNCHANGED <<state, prev_solution>>
       ELSE /\ pc' = "prepare"
            /\ result' = Results
            /\ state' = [ICP_State EXCEPT !.current_solution = init_guess]
            /\ prev_solution' = init_guess
            /\ UNCHANGED abortAt
    /\ UNCHANGED <<inputs, iter_result, hist, notAlign>>

\* align, line 65 and the for-init of line 67.
AlignPrepare ==
    /\ pc = "prepare"
    /\ state' = prepareMatchingParams(state, pcs1, p)
    /\ result' = [result EXCEPT !.nIterations = 0]
    /\ hist' = [hist EXCEPT !.prepared = TRUE]
    /\ pc' = "loop"
    /\ UNCHANGED <<inputs, prev_solution, iter_result, abortAt, notAlign>>


\* -------------------------------------------------------------- iteration
\* What a run of the matchers can find: for every matched layer the number
\* of its points that received a correspondence (each point at most once, at
\* most MaxPairs pairings in all).
MatchOutcomes ==
    {f \in [CountedLayers -> 0..MaxPts] :
        /\ \A L \in CountedLayers :
              f[L] <= Min(pcs1.point_layers[L], pcs2.point_layers[L])
        /\ SumOver(f, CountedLayers) <= MaxPairs}

\* The per-layer match results left in state.mres: the ratio of the points of
\* the layer that received a correspondence.
MatchResults(f) == [L \in CountedLayers |-> <<f[L], pcs1.point_layers[L]>>]

\* Variant: the guard lets two pairings through.
TooFewPairings_two(pairings) ==
    PairingsEmpty(pairings) \/ pairings.paired_points < 2

\* The guard of line 38: the problem is ill-defined.
TooFewPairings(pairings) ==
    PairingsEmpty(pairings) \/ pairings.paired_points < 3

\* Lines 56-61: the output of the iteration after the solver ran; what the
\* solver reported (ok) and its scale are not looked at.
SolvedIteration(out, ok, optimal_pose, optimal_scale) ==
    [out EXCEPT !.success = TRUE, !.new_solution = optimal_pose]

\* ICP_Horn_MultiCloud::impl_ICP_iteration on a fresh ICP_iteration_result.
\* The matchers return the point pairings f and m plane pairings; the solver,
\* when it is called, returns a pose and a scale and reports success or not.
impl_ICP_iteration ==
    /\ pc = "loop"
    /\ result.nIterations < p.maxIterations
    /\ IF DOMAIN pcs1.point_layers = {}
       THEN /\ pc' = "aborted"
            /\ abortAt' = "ASSERT_impl_point_layers"
            /\ UNCHANGED <<state, iter_result, hist>>
       ELSE /\ UNCHANGED abortAt
            /\ pc' = "iter_check"
            /\ \E f \in MatchOutcomes, m \in {0, Min(pcs1.planes, pcs2.planes)} :
                 LET pairings == [paired_points |-> SumOver(f, CountedLayers),
                                  paired_planes |-> m]
                     mr == MatchResults(f)
                     h1 == [hist EXCEPT !.matcherCalls = @ + 1,
                                        !.iterations = @ + 1,
                                        !.poseAtMatch = state.current_solution,
                                        !.solverRan = FALSE]
                 IN /\ state' = [state EXCEPT !.currentPairings = pairings, !.mres = mr]
                    /\ IF TooFewPairings(pairings)
                       THEN /\ iter_result' = [ICP_iteration_result EXCEPT !.success = FALSE]
                            /\ hist' = h1
                       ELSE \E ok \in BOOLEAN, optimal_pose \in Poses, optimal_scale \in Scales :
                            /\ iter_result' = SolvedIteration(ICP_iteration_result, ok,
                                                            optimal_pose, optimal_scale)
                            /\ hist' = [h1 EXCEPT !.solverCalls = @ + 1,
                                                  !.solverRan = TRUE,
                                                  !.solverOk = ok,
                                                  !.solverScale = optimal_scale,
                                                  !.solverPose = optimal_pose]
    /\ UNCHANGED <<inputs, result, prev_solution, notAlign>>

\* Norms of the translation and rotation blocks of SE<3>::log(a - b).
DeltaXyz(a, b) == Abs(a.t - b.t)

DeltaRot(a, b) == Abs(a.r - b.r)

\* Variant: the comparisons are not strict.
StallCondition_nonstrict(delta_xyz, delta_rot, par) ==
    delta_xyz <= par.minAbsStep_trans /\ delta_rot <= par.minAbsStep_rot

\* The stall test of lines 99-100.
StallCondition(delta_xyz, delta_rot, par) ==
    delta_xyz < par.minAbsStep_trans /\ delta_rot < par.minAbsStep_rot

\* Variant: the candidate is dropped.
Adopt_none(st, out) == st

\* Line 84: update to the new solution.
Adopt(st, out) == [st EXCEPT !.current_solution = out.new_solution]

\* Variant: the reason is overwritten whatever the count.
ExhaustedIterations_always(res, par) == TRUE

\* Variant: strict comparison.
ExhaustedIterations_strict(res, par) == res.nIterations > par.maxIterations

\* Line 109: the loop ran out of iterations.
ExhaustedIterations(res, par) == res.nIterations >= par.maxIterations

\* align, lines 75-106 and the for-increment of line 68.
AlignIterationCheck ==
    /\ pc = "iter_check"
    /\ IF ~iter_result.success
       THEN /\ result' = [result EXCEPT !.terminationReason = "NoPairings",
                                        !.goodness = Zero]
            /\ pc' = "post"
            /\ hist' = [hist EXCEPT !.lastOutcome = "failed"]
            /\ UNCHANGED <<state, prev_solution>>
       ELSE LET delta_xyz == DeltaXyz(Adopt(state, iter_result).current_solution, prev_solution)
                delta_rot == DeltaRot(Adopt(state, iter_result).current_solution, prev_solution)
                h1 == [hist EXCEPT !.adopted = @ + 1,
                                   !.delta_xyz = delta_xyz,
                                   !.delta_rot = delta_rot]
            IN /\ state' = Adopt(state, iter_result)
               /\ IF StallCondition(delta_xyz, delta_rot, p)
                  THEN /\ result' = [result EXCEPT !.terminationReason = "Stalled"]
                       /\ pc' = "post"
                       /\ hist' = [h1 EXCEPT !.lastOutcome = "stalled"]
                       /\ UNCHANGED prev_solution
                  ELSE /\ prev_solution' = state'.current_solution
                       /\ result' = [result EXCEPT !.nIterations = @ + 1]
                       /\ pc' = "loop"
                       /\ hist' = [h1 EXCEPT !.continued = @ + 1,
                                             !.lastOutcome = "continued"]
    /\ UNCHANGED <<inputs, iter_result, abortAt, notAlign>>

\* align, lines 109-119: after the loop.
AlignPostLoop ==
    /\ \/ pc = "post"
       \/ pc = "loop" /\ ~(result.nIterations < p.maxIterations)
    /\ LET r1 == IF ExhaustedIterations(result, p)
                 THEN [result EXCEPT !.terminationReason = "MaxIterations"]
                 ELSE result
       IN IF state.layerOfLargestPc # "" /\ state.layerOfLargestPc \notin DOMAIN state.mres
          THEN /\ pc' = "aborted"
               /\ abortAt' = "out_of_range_mres_at"
               /\ result' = r1
          ELSE /\ pc' = "done"
               /\ UNCHANGED abortAt
               /\ result' = [r1 EXCEPT
                    !.goodness = IF state.layerOfLargestPc # ""
                                 THEN state.mres[state.layerOfLargestPc]
                                 ELSE @,
                    !.optimal_tf = state.current_solution,
                    !.optimal_scale = state.current_scale]
    /\ UNCHANGED <<inputs, state, prev_solution, iter_result, hist, notAlign>>

\* ------------------------------------------------- concurrent calls of align
\* The threads that call align at the same time.
Callers == {1, 2}

\* What runMatchers finds with the local cloud at a pose: a fixed function of
\* the clouds and the pose that the oracle stands for (every listed layer
\* fully paired at the pose oracle.goal, oracle.found pairings elsewhere).
OracleMatch(pose) ==
    [L \in CountedLayers |->
        Min(Min(pcs1.point_layers[L], pcs2.point_layers[L]),
            IF pose = oracle.goal THEN MaxPairs ELSE oracle.found)]

\* One unit nearer to b from a.
Toward(a, b) == IF a < b THEN a + 1 ELSE IF a > b THEN a - 1 ELSE a

\* What the solver returns for the pairings found at a pose: a fixed function
\* of its input, one step from the pose towards oracle.goal.
OracleSolve(pose) ==
    [ok |-> oracle.ok,
     optimal_pose |-> [t |-> Toward(pose.t, oracle.goal.t),
                       r |-> Toward(pose.r, oracle.goal.r)],
     optimal_scale |-> oracle.scale]

\* The frame of a call of align before its first statement: its arguments
\* init_guess and result, and its locals.
CallFrame(guess, res) ==
    [init_guess |-> guess, given |-> res, result |-> res,
     state |-> ICP_State, prev_solution |-> [t |-> 0, r |-> 0],
     iter_result |-> ICP_iteration_result, pc |-> "start", abortAt |-> "",
     overlapped |-> FALSE]

\* align, lines 35-62, on the frame c.
CallEntry(c) ==
    LET f == FailedPrecondition IN
    IF f # ""
    THEN [c EXCEPT !.pc = "aborted", !.abortAt = f,
                   !.result = IF AfterReset(f) THEN Results ELSE @]
    ELSE [c EXCEPT !.pc = "prepare", !.result = Results,
                   !.state = [ICP_State EXCEPT !.current_solution = c.init_guess],
                   !.prev_solution = c.init_guess]

\* align, line 65 and the for-init of line 67, on the frame c.
CallPrepare(c) ==
    [c EXCEPT !.state = prepareMatchingParams(c.state, pcs1, p),
              !.result.nIterations = 0,
              !.pc = "loop"]

\* impl_ICP_iteration on the state of the frame c and a fresh
\* ICP_iteration_result.
CallIteration(c) ==
    IF DOMAIN pcs1.point_layers = {}
    THEN [c EXCEPT !.pc = "aborted", !.abortAt = "ASSERT_impl_point_layers"]
    ELSE LET f == OracleMatch(c.state.current_solution)
             pairings == [paired_points |-> SumOver(f, CountedLayers),
                          paired_planes |-> 0]
             st == [c.state EXCEPT !.currentPairings = pairings,
                                   !.mres = MatchResults(f)]
             solved == OracleSolve(c.state.current_solution)
         IN [c EXCEPT !.pc = "iter_check",
                      !.state = st,
                      !.iter_result =
                          IF TooFewPairings(pairings)
                          THEN [ICP_iteration_result EXCEPT !.success = FALSE]
                          ELSE SolvedIteration(ICP_iteration_result, solved.ok,
                                               solved.optimal_pose,
                                               solved.optimal_scale)]

\* align, lines 75-106 and the for-increment of line 68, on the frame c.
CallIterationCheck(c) ==
    IF ~c.iter_result.success
    THEN [c EXCEPT !.result.terminationReason = "NoPairings",
                   !.result.goodness = Zero,
                   !.pc = "post"]
    ELSE LET st == Adopt(c.state, c.iter_result)
             delta_xyz == DeltaXyz(st.current_solution, c.prev_solution)
             delta_rot == DeltaRot(st.current_solution, c.prev_solution)
         IN IF StallCondition(delta_xyz, delta_rot, p)
            THEN [c EXCEPT !.state = st,
                           !.result.terminationReason = "Stalled",
                           !.pc = "post"]
            ELSE [c EXCEPT !.state = st,
                           !.prev_solution = st.current_solution,
                           !.result.nIterations = @ + 1,
                           !.pc = "loop"]

\* align, lines 109-119, on the frame c.
CallPostLoop(c) ==
    LET r1 == IF ExhaustedIterations(c.result, p)
              THEN [c.result EXCEPT !.terminationReason = "MaxIterations"]
              ELSE c.result
    IN IF c.state.layerOfLargestPc # "" /\ c.state.layerOfLargestPc \notin DOMAIN c.state.mres
       THEN [c EXCEPT !.pc = "aborted", !.abortAt = "out_of_range_mres_at",
                      !.result = r1]
       ELSE [c EXCEPT !.pc = "done",
                      !.result = [r1 EXCEPT
                          !.goodness = IF c.state.layerOfLargestPc # ""
                                       THEN c.state.mres[c.state.layerOfLargestPc]
                                       ELSE @,
                          !.optimal_tf = c.state.current_solution,
                          !.optimal_scale = c.state.current_scale]]

\* The call is over: it returned or it threw.
CallOver(c) == c.pc \in {"done", "aborted"}

\* The next step of align on the frame c.
StepOfCall(c) ==
    CASE c.pc = "start" -> CallEntry(c)
      [] c.pc = "prepare" -> CallPrepare(c)
      [] c.pc = "loop" -> IF c.result.nIterations < p.maxIterations
                          THEN CallIteration(c)
                          ELSE CallPostLoop(c)
      [] c.pc = "iter_check" -> CallIterationCheck(c)
      [] c.pc = "post" -> CallPostLoop(c)
      [] OTHER -> c

StateOwner_static(i) == 1

\* Line 59: the state is a local variable of align, so the state that the
\* call of thread i works on is in the frame of thread i.
StateOwner(i) == i

\* One step of the call of thread i, the other calls being anywhere.
AlignStep(i) ==
    /\ ~CallOver(calls[i])
    /\ LET owner == StateOwner(i)
           c == [calls[i] EXCEPT !.state = calls[owner].state]
           d == [StepOfCall(c) EXCEPT !.overlapped =
                    @ \/ \E j \in Callers \ {i} :
                            calls[j].pc \notin {"start", "done", "aborted"}]
       IN calls' = [k \in Callers |->
                       IF k = i
                       THEN IF owner = i THEN d
                            ELSE [d EXCEPT !.state = calls[i].state]
                       ELSE IF k = owner
                       THEN [calls[k] EXCEPT !.state = d.state]
                       ELSE calls[k]]
    /\ UNCHANGED <<alignVars, matcherVars, transformVars, dec, oracle>>

\* ------------------------------------------------ Matcher_Points_Base::match
\* Pairings() as match fills it: the point pairings (each one tagged with the
\* layer it belongs to) and the weight records <<count, weight>>.
EmptyPairings == [paired_points |-> << >>, point_weights |-> << >>]

\* An output object that an earlier call has filled.
StalePairings == [paired_points |-> <<PT_LAYER_RAW>>,
                  point_weights |-> << <<1, 1>> >>]

\* n pairings of one layer.
RECURSIVE PairingsOf(_, _)
PairingsOf(name, n) == IF n = 0 THEN << >> ELSE <<name>> \o PairingsOf(name, n - 1)

\* implMatchOneLayer: the search of one layer appends the pairings it found.
implMatchOneLayer(o, name, n) ==
    [o EXCEPT !.paired_points = @ \o PairingsOf(name, n)]

SkippedByWeights_never(weights, name) == FALSE

\* Lines 33-34: there are weights and the layer is not listed.
SkippedByWeights(weights, name) ==
    DOMAIN weights # {} /\ name \notin DOMAIN weights

WithWeightRecord_always(o, weights, name, nBefore) ==
    LET nAfter == Len(o.paired_points) IN
    IF DOMAIN weights # {}
    THEN [o EXCEPT !.point_weights = Append(@, <<nAfter - nBefore, weights[name]>>)]
    ELSE o

WithWeightRecord_cumulative(o, weights, name, nBefore) ==
    LET nAfter == Len(o.paired_points) IN
    IF DOMAIN weights # {} /\ nAfter # nBefore
    THEN [o EXCEPT !.point_weights = Append(@, <<nAfter, weights[name]>>)]
    ELSE o

\* Lines 54-58: the weight record of the layer just searched.
WithWeightRecord(o, weights, name, nBefore) ==
    LET nAfter == Len(o.paired_points) IN
    IF DOMAIN weights # {} /\ nAfter # nBefore
    THEN [o EXCEPT !.point_weights = Append(@, <<nAfter - nBefore, weights[name]>>)]
    ELSE o

\* The loop of lines 29-59 from the i-th layer name of the map order on.
\* acc.out is the output so far, acc.searched the number of searches made
\* for each layer; found[name] is what the search of a layer finds.
RECURSIVE matchFrom(_, _, _, _, _, _)
matchFrom(i, acc, weights, pcGlobal, pcLocal, found) ==
    IF i > Len(LayerOrder) THEN acc
    ELSE LET name == LayerOrder[i] IN
      IF name \notin DOMAIN pcGlobal.point_layers
      THEN matchFrom(i + 1, acc, weights, pcGlobal, pcLocal, found)
      ELSE IF SkippedByWeights(weights, name)
      THEN matchFrom(i + 1, acc, weights, pcGlobal, pcLocal, found)
      ELSE IF name \notin DOMAIN pcLocal.point_layers
      THEN matchFrom(i + 1, acc, weights, pcGlobal, pcLocal, found)
      ELSE LET nBefore == Len(acc.out.paired_points)
               searched == implMatchOneLayer(acc.out, name, found[name])
           IN matchFrom(i + 1,
                [out |-> WithWeightRecord(searched, weights, name, nBefore),
                 searched |-> [acc.searched EXCEPT ![name] = @ + 1]],
                weights, pcGlobal, pcLocal, found)

ResetOutput_keep(o) == o

\* Line 26: whatever the output object held is replaced by Pairings().
ResetOutput(o) == EmptyPairings

\* Ghost record of the last call of match, with what the call before it
\* found and returned.
MatchHistInit == [calls |-> 0,
                  searched |-> [L \in LayerNames |-> 0],
                  found |-> [L \in LayerNames |-> 0],
                  weightsAtEntry |-> EmptyMap,
                  prevFound |-> [L \in LayerNames |-> 0],
                  prevOut |-> EmptyPairings]

\* What the searches of the layers of the local cloud can find: nothing, one
\* pairing, or as many as the bounds allow, never more than the layer has.
FoundOutcomes ==
    {f \in [LayerNames -> {0, 1, Min(MaxPts, MaxPairs)}] :
        \A L \in LayerNames :
            f[L] <= IF L \in DOMAIN pcs2.point_layers
                    THEN pcs2.point_layers[L] ELSE 0}

\* Matcher_Points_Base::match(pcs1, pcs2, localPose, matchOut): the whole call.
Match ==
    /\ mhist.calls < MaxCalls
    /\ \E found \in FoundOutcomes :
         LET r == matchFrom(1, [out |-> ResetOutput(matchOut),
                                searched |-> [L \in LayerNames |-> 0]],
                            weight_pt2pt_layers, pcs1, pcs2, found)
         IN /\ matchOut' = r.out
            /\ mhist' = [calls |-> mhist.calls + 1,
                         searched |-> r.searched,
                         found |-> [L \in LayerNames |->
                                       IF r.searched[L] > 0 THEN found[L] ELSE 0],
                         weightsAtEntry |-> weight_pt2pt_layers,
                         prevFound |-> mhist.found,
                         prevOut |-> matchOut]
    /\ UNCHANGED <<alignVars, weight_pt2pt_layers, transformVars, dec, concVars>>

\* ------------------------------ Matcher_Points_Base::transform_local_to_global
\* The i-th point <<x, y, z>> of the clouds of the model.
BasePoint(i) == <<(2 * i) % 3, i % 2, (i * i) % 3>>

BaseCloud == [i \in 1..MaxLocal |-> BasePoint(i)]

\* Local clouds: the first b points of BaseCloud, for every b.
LocalClouds == {SubSeq(BaseCloud, 1, b) : b \in 0..MaxLocal}

\* CPose3D::composePoint for a pose of r quarter turns about the z axis
\* followed by a translation t along x.
RECURSIVE QuarterTurns(_, _)
QuarterTurns(k, pt) ==
    IF k = 0 THEN pt ELSE QuarterTurns(k - 1, <<0 - pt[2], pt[1], pt[3]>>)

composePoint(localPose, pt) ==
    LET q == QuarterTurns(localPose.r % 4, pt) IN <<q[1] + localPose.t, q[2], q[3]>>

\* No coordinate of a transformed point is beyond this one.
CoordLimit == 2 + MaxTrans + 1

\* TransformedLocalPointCloud as constructed: no points, no indices, and the
\* box whose minimum is above and whose maximum is below every point.
TransformedLocalPointCloud ==
    [idxs |-> "nullopt",
     locals |-> << >>,
     localMin |-> <<CoordLimit, CoordLimit, CoordLimit>>,
     localMax |-> <<0 - CoordLimit, 0 - CoordLimit, 0 - CoordLimit>>]

lambdaKeepBBox_maxOnly(r, pt) ==
    [r EXCEPT !.localMax = [c \in 1..3 |-> Max(@[c], pt[c])]]

\* Lines 87-95: keep_max on localMax and keep_min on localMin.
lambdaKeepBBox(r, pt) ==
    [r EXCEPT !.localMax = [c \in 1..3 |-> Max(@[c], pt[c])],
              !.localMin = [c \in 1..3 |-> Min(@[c], pt[c])]]

\* std::iota(begin, end, 0) on n entries.
RECURSIVE Iota(_)
Iota(n) == IF n = 0 THEN << >> ELSE Append(Iota(n - 1), n - 1)

\* The sequence without its k-th entry.
WithoutEntry(seq, k) == SubSeq(seq, 1, k - 1) \o SubSeq(seq, k + 1, Len(seq))

\* std::shuffle with an engine constructed from the seed: a permutation of the
\* sequence that the seed fixes.
RECURSIVE Shuffle(_, _)
Shuffle(seq, seed) ==
    IF Len(seq) <= 1 THEN seq
    ELSE LET k == (seed % Len(seq)) + 1
         IN <<seq[k]>> \o Shuffle(WithoutEntry(seq, k), seed \div Len(seq))

EngineSeed_clock(localPointsSampleSeed, now) == now

\* Lines 124-127: the seed given, or the clock when the seed given is 0.
EngineSeed(localPointsSampleSeed, now) ==
    IF localPointsSampleSeed # 0 THEN localPointsSampleSeed ELSE now

\* Lines 110-116 and 137-144: the points whose indices (from 0) are in sel
\* from the i-th on, each one transformed, stored and put in the box.
RECURSIVE TransformFrom(_, _, _, _, _)
TransformFrom(i, sel, r, pcLocal, localPose) ==
    IF i > Len(sel) THEN r
    ELSE LET pt == composePoint(localPose, pcLocal[sel[i] + 1])
         IN TransformFrom(i + 1, sel,
                lambdaKeepBBox([r EXCEPT !.locals = Append(@, pt)], pt),
                pcLocal, localPose)

\* The value that transform_local_to_global returns; now is the reading of the
\* system clock.
transform_local_to_global(pcLocal, localPose, maxLocalPoints, localPointsSampleSeed, now) ==
    LET nLocalPoints == Len(pcLocal) IN
    IF maxLocalPoints = 0 \/ nLocalPoints <= maxLocalPoints
    THEN TransformFrom(1, Iota(nLocalPoints), TransformedLocalPointCloud,
                       pcLocal, localPose)
    ELSE LET idxs == Shuffle(Iota(maxLocalPoints),
                             EngineSeed(localPointsSampleSeed, now))
         IN TransformFrom(1, idxs,
                [TransformedLocalPointCloud EXCEPT !.idxs = idxs],
                pcLocal, localPose)

\* No call yet.
NoCall == [done |-> FALSE]

\* Poses of the calls: the identity, and a turn with a translation.
LocalPoses == {[t |-> 0, r |-> 0], [t |-> MaxTrans, r |-> MaxRot]}

\* A call of transform_local_to_global; tl is the last call with what it
\* returned, tlFirst the first call.
Transform ==
    \E pcLocal \in LocalClouds, localPose \in LocalPoses,
       maxLocalPoints \in {0, 1, MaxLocal - 1},
       seed \in {0, 1, MaxSeed}, now \in {1, MaxClock} :
        LET call == [done |-> TRUE,
                     pcLocal |-> pcLocal,
                     localPose |-> localPose,
                     maxLocalPoints |-> maxLocalPoints,
                     localPointsSampleSeed |-> seed,
                     now |-> now,
                     r |-> transform_local_to_global(pcLocal, localPose,
                                                    maxLocalPoints, seed, now)]
        IN /\ tl' = call
           /\ tlFirst' = IF tlFirst.done THEN tlFirst ELSE call
    /\ UNCHANGED <<alignVars, matcherVars, dec, concVars>>

\* ------------------------------------------ decimation of an ordinary layer
\* Number of points visited from index i on, one every stride points, in a
\* layer of n points.
RECURSIVE ProbesFrom(_, _, _)
ProbesFrom(i, n, stride) ==
    IF i >= n THEN 0 ELSE 1 + ProbesFrom(i + stride, n, stride)

\* prepareMatchingParams for a cloud whose only layer is an ordinary, listed
\* layer of N points, with maxPairsPerLayer = K; dec records the stride stored
\* for the layer and the points then probed in one iteration.
PrepareLayer ==
    /\ \E N \in 0..MaxN, K \in 1..MaxK :
         LET cloud == [point_layers |-> [L \in {PT_LAYER_RAW} |-> N], planes |-> 0]
             par == [maxPairsPerLayer |-> K,
                     thresholdDist |-> thresholdDist,
                     thresholdAng |-> thresholdAng,
                     weight_pt2pt_layers |-> {PT_LAYER_RAW}]
             st == prepareMatchingParams(ICP_State, cloud, par)
             stride == st.mps[PT_LAYER_RAW].decimation_other_map_points
         IN dec' = [done |-> TRUE, N |-> N, K |-> K, stride |-> stride,
                    offset |-> st.mps[PT_LAYER_RAW].offset_other_map_points,
                    probes |-> ProbesFrom(st.mps[PT_LAYER_RAW].offset_other_map_points,
                                          N, stride)]
    /\ UNCHANGED <<alignVars, matcherVars, transformVars, concVars>>

\* ------------------------------------------------------- specifications
\* Values of the variables of the components that a specification leaves out.
IdleMatcher ==
    /\ weight_pt2pt_layers = EmptyMap
    /\ matchOut = EmptyPairings
    /\ mhist = MatchHistInit

IdleTransform ==
    /\ tl = NoCall
    /\ tlFirst = NoCall

IdleDecimation == dec = [done |-> FALSE]

IdleCalls ==
    /\ calls = << >>
    /\ oracle = [found |-> 0]

IdleClouds ==
    /\ pcs1 = [point_layers |-> EmptyMap, planes |-> 0]
    /\ pcs2 = [point_layers |-> EmptyMap, planes |-> 0]

IdleAlign ==
    /\ init_guess = [t |-> 0, r |-> 0]
    /\ p = [weight_pt2pt_layers |-> {}]
    /\ result = Results
    /\ state = ICP_State
    /\ prev_solution = [t |-> 0, r |-> 0]
    /\ iter_result = ICP_iteration_result
    /\ pc = "idle"
    /\ abortAt = ""
    /\ hist = HistInit

Parameters(weights) ==
    [maxIterations : 0..MaxIter,
     minAbsStep_trans : 0..MaxStep,
     minAbsStep_rot : 0..MaxStep,
     maxPairsPerLayer : {MaxPairsPerLayer},
     thresholdDist : {thresholdDist},
     thresholdAng : {thresholdAng},
     weight_pt2pt_layers : weights]

InitOver(clouds1, clouds2, params, guesses, results) ==
    /\ pcs1 \in clouds1
    /\ pcs2 \in clouds2
    /\ p \in params
    /\ init_guess \in guesses
    /\ result \in results
    /\ state = ICP_State
    /\ prev_solution = [t |-> 0, r |-> 0]
    /\ iter_result = ICP_iteration_result
    /\ pc = "start"
    /\ abortAt = ""
    /\ hist = HistInit
    /\ IdleMatcher
    /\ IdleTransform
    /\ IdleDecimation
    /\ IdleCalls

\* Inputs of Spec: one ordinary layer (absent, or of 0, 1 or MaxPts points),
\* every loop parameter.
Init == InitOver(CloudsOver({PT_LAYER_RAW}, {0, 1, MaxPts}, {0, MaxPlanes}),
                 CloudsOver({PT_LAYER_RAW}, {0, 1, MaxPts}, {0, MaxPlanes}),
                 Parameters(SUBSET {PT_LAYER_RAW}),
                 {[t |-> 1, r |-> 0]},
                 {Results, StaleResults})

\* Inputs of SpecPre: every layer structure (layers of 0, 1 or MaxPts points
\* in the first cloud, empty or full layers in the second), one setting of the
\* loop.
InitPre == InitOver(CloudsOver(LayerNames, {0, 1, MaxPts}, {0, MaxPlanes}),
                    CloudsOver(LayerNames, {0, MaxPts}, {0, MaxPlanes}),
                    {q \in Parameters(SUBSET LayerNames) :
                        /\ q.maxIterations = 1
                        /\ q.minAbsStep_trans = 1
                        /\ q.minAbsStep_rot = 0},
                    {[t |-> 1, r |-> 0]},
                    {StaleResults})

Next ==
    \/ AlignEntry
    \/ AlignPrepare
    \/ impl_ICP_iteration
    \/ AlignIterationCheck
    \/ AlignPostLoop

Spec == Init /\ [][Next]_vars

SpecPre == InitPre /\ [][Next]_vars

\* A call of align is sequential code on a running thread: whenever a step of
\* it can be taken, one is taken.
SpecLive == Init /\ [][Next]_vars /\ WF_vars(Next)

\* Inputs of SpecConc: clouds and parameters shared by the two calls, each call
\* with its own initial guess and its own Results object, fresh or used.
InitConc ==
    /\ pcs1 \in CloudsOver({PT_LAYER_RAW}, {MaxPts}, {0, MaxPlanes})
    /\ pcs2 = pcs1
    /\ p \in {q \in Parameters({{PT_LAYER_RAW}}) :
                 /\ q.maxIterations \in {0, 1, MaxIter}
                 /\ q.minAbsStep_trans \in {0, MaxStep}
                 /\ q.minAbsStep_rot \in {0, MaxStep}}
    /\ oracle \in [found : {0, MaxPairs},
                    goal : {[t |-> 0, r |-> 0], [t |-> MaxTrans, r |-> MaxRot]},
                    ok : {TRUE},
                    scale : {1}]
    /\ calls \in {[i \in Callers |-> CallFrame(IF i = 1 THEN [t |-> 1, r |-> 0] ELSE g, res)] :
                     g \in {[t |-> 1, r |-> 0], [t |-> 0, r |-> 0]},
                     res \in {Results, StaleResults}}
    /\ init_guess = [t |-> 0, r |-> 0]
    /\ result = Results
    /\ state = ICP_State
    /\ prev_solution = [t |-> 0, r |-> 0]
    /\ iter_result = ICP_iteration_result
    /\ pc = "idle"
    /\ abortAt = ""
    /\ hist = HistInit
    /\ IdleMatcher
    /\ IdleTransform
    /\ IdleDecimation

NextConc == \E i \in Callers : AlignStep(i)

SpecConc == InitConc /\ [][NextConc]_vars

\* Weight configurations of a matcher: any layers, any weights.
WeightConfigs == UNION {[S -> {1, MaxWeight}] : S \in SUBSET LayerNames}

\* Inputs of SpecMatch: a configured matcher, a global cloud of full layers, a
\* local cloud of empty or full layers, an output object empty or used.
InitMatch ==
    /\ pcs1 \in CloudsOver(LayerNames, {MaxPts}, {0})
    /\ pcs2 \in CloudsOver(LayerNames, {0, MaxPts}, {0})
    /\ weight_pt2pt_layers \in WeightConfigs
    /\ matchOut \in {EmptyPairings, StalePairings}
    /\ mhist = MatchHistInit
    /\ IdleAlign
    /\ IdleTransform
    /\ IdleDecimation
    /\ IdleCalls

NextMatch == Match

SpecMatch == InitMatch /\ [][NextMatch]_vars

\* Before the first call of transform_local_to_global.
InitTransform ==
    /\ IdleClouds
    /\ IdleAlign
    /\ IdleMatcher
    /\ IdleTransform
    /\ IdleDecimation
    /\ IdleCalls

NextTransform == Transform

SpecTransform == InitTransform /\ [][NextTransform]_vars

\* Before any layer is prepared.
InitDecimation ==
    /\ IdleClouds
    /\ IdleAlign
    /\ IdleMatcher
    /\ IdleTransform
    /\ IdleDecimation
    /\ IdleCalls

NextDecimation == PrepareLayer

SpecDecimation == InitDecimation /\ [][NextDecimation]_vars

TypeOK ==
    /\ pc \in {"idle", "start", "prepare", "loop", "iter_check", "post", "done", "aborted"}
    /\ result.terminationReason \in IterTermReason
    /\ result.nIterations \in 0..(MaxIter + 1)
    /\ state.current_solution \in Poses
    /\ state.current_scale \in Scales
    /\ prev_solution \in Poses


\* ------------------------------------------------------------ properties
Returned == pc = "done"

\* Increment of the last iteration whose solver ran, measured from the pose
\* at which the matchers were invoked to the pose the solver returned.
IncrementXyz == Abs(hist.solverPose.t - hist.poseAtMatch.t)

IncrementRot == Abs(hist.solverPose.r - hist.poseAtMatch.r)

\* The last iteration is over (its outcome is in hist.lastOutcome).
IterationOver == pc \in {"loop", "post", "done"} /\ hist.iterations > 0

\* C1: when align returns, the termination reason is one of MaxIterations,
\* Stalled, NoPairings (never the undefined value of a reset Results), and a
\* reason set inside the loop is not replaced by MaxIterations afterwards.
C1_TerminationExhaustive ==
    Returned =>
        /\ result.terminationReason \in {"MaxIterations", "Stalled", "NoPairings"}
        /\ hist.lastOutcome = "failed" => result.terminationReason = "NoPairings"
        /\ hist.lastOutcome = "stalled" => result.terminationReason = "Stalled"

C1_Witness ==
    /\ Returned
    /\ hist.lastOutcome = "stalled"
    /\ result.terminationReason = "Stalled"
    /\ hist.continued > 0

\* C2 (as claimed): whenever align returns NoPairings the goodness is 0,
\* also when layerOfLargestPc is not empty.
C2_NoPairingsGoodnessZero ==
    (Returned /\ result.terminationReason = "NoPairings") => IsZero(result.goodness)

\* C3: an iteration whose matchers return fewer than 3 point pairings does
\* not call the solver, is the last iteration, and align returns (does not
\* abort) with NoPairings and the pose current at the start of the iteration.
C3_TooFewPairingsStops ==
    /\ (pc = "iter_check" /\ state.currentPairings.paired_points < 3) =>
           /\ ~hist.solverRan
           /\ ~iter_result.success
           /\ hist.solverCalls < hist.matcherCalls
    /\ (hist.iterations > 0 /\ pc # "iter_check"
            /\ state.currentPairings.paired_points < 3) =>
           /\ pc \in {"post", "done"}
           /\ hist.lastOutcome = "failed"
           /\ hist.matcherCalls = result.nIterations + 1
           /\ result.terminationReason = "NoPairings"
           /\ state.current_solution = hist.poseAtMatch
           /\ Returned => result.optimal_tf = hist.poseAtMatch

C3_Witness ==
    /\ Returned
    /\ state.currentPairings.paired_points = 2
    /\ hist.continued = 1
    /\ hist.poseAtMatch # init_guess

\* C4 (as claimed): when the solver reports failure the iteration is marked
\* unsuccessful, its pose is not adopted, the loop stops and align returns
\* NoPairings with goodness 0.
C4_SolverFailureStops ==
    /\ (pc = "iter_check" /\ hist.solverRan /\ ~hist.solverOk) => ~iter_result.success
    /\ (hist.iterations > 0 /\ pc # "iter_check" /\ hist.solverRan /\ ~hist.solverOk) =>
           /\ pc \in {"post", "done"}
           /\ hist.lastOutcome = "failed"
           /\ state.current_solution = hist.poseAtMatch
           /\ Returned => /\ result.terminationReason = "NoPairings"
                          /\ IsZero(result.goodness)

\* C5: a successful iteration stalls exactly when the translation norm of the
\* increment is strictly below minAbsStep_trans and its rotation norm strictly
\* below minAbsStep_rot; with a threshold of 0 align never returns Stalled.
C5_StallIffBothBelow ==
    /\ (IterationOver /\ hist.lastOutcome \in {"stalled", "continued"}) =>
           ((hist.lastOutcome = "stalled") <=>
               (IncrementXyz < p.minAbsStep_trans /\ IncrementRot < p.minAbsStep_rot))
    /\ (IterationOver /\ hist.lastOutcome = "stalled" /\ pc # "loop") =>
           result.terminationReason = "Stalled"
    /\ (Returned /\ (p.minAbsStep_trans = 0 \/ p.minAbsStep_rot = 0)) =>
           result.terminationReason # "Stalled"

C5_Witness ==
    /\ pc = "loop"
    /\ hist.lastOutcome = "continued"
    /\ IncrementXyz = p.minAbsStep_trans
    /\ p.minAbsStep_trans > 0
    /\ IncrementRot < p.minAbsStep_rot

\* C6 (as claimed): on Stalled the candidate of the stalling iteration is not
\* adopted; the returned pose is the pose at which the matchers were invoked.
C6_StalledKeepsPreviousPose ==
    (Returned /\ result.terminationReason = "Stalled") =>
        /\ result.optimal_tf = hist.poseAtMatch
        /\ hist.adopted = hist.continued

\* C6 (amended): the candidate is adopted in every successful iteration, the
\* stalling one included: the pose returned on Stalled is the candidate of
\* the stalling iteration, whose increment is below both thresholds.
C6_StalledReturnsCandidate ==
    /\ (IterationOver /\ hist.lastOutcome \in {"stalled", "continued"}) =>
           state.current_solution = hist.solverPose
    /\ (Returned /\ result.terminationReason = "Stalled") =>
           /\ result.optimal_tf = hist.solverPose
           /\ hist.adopted = hist.continued + 1
           /\ Abs(result.optimal_tf.t - hist.poseAtMatch.t) < p.minAbsStep_trans
           /\ Abs(result.optimal_tf.r - hist.poseAtMatch.r) < p.minAbsStep_rot

C6_Witness ==
    /\ Returned
    /\ result.terminationReason = "Stalled"
    /\ result.optimal_tf # hist.poseAtMatch

\* C7 (as claimed): after an adopting iteration the current scale is the
\* scale of that iteration's candidate, and the returned scale is the scale
\* of the last adopted candidate (1.0 when none was adopted).
C7_ScaleFollowsCandidate ==
    /\ (IterationOver /\ hist.lastOutcome \in {"stalled", "continued"}) =>
           state.current_scale = hist.solverScale
    /\ Returned =>
           result.optimal_scale = IF hist.adopted = 0 THEN 1 ELSE hist.solverScale

\* C8: align returns MaxIterations exactly when maxIterations iterations in a
\* row succeeded without stalling; then nIterations = maxIterations, and on
\* Stalled or NoPairings nIterations < maxIterations.
C8_MaxIterationsIff ==
    Returned =>
        /\ (result.terminationReason = "MaxIterations") <=>
               (hist.continued = p.maxIterations /\ hist.iterations = p.maxIterations)
        /\ result.terminationReason = "MaxIterations" =>
               result.nIterations = p.maxIterations
        /\ result.terminationReason \in {"Stalled", "NoPairings"} =>
               result.nIterations < p.maxIterations

C8_Witness ==
    /\ Returned
    /\ result.terminationReason = "MaxIterations"
    /\ p.maxIterations = MaxIter
    /\ hist.matcherCalls = MaxIter

\* C9 (as claimed): the iteration count returned is the number of iterations
\* that continued; a failure of the first iteration returns NoPairings with
\* nIterations = 0, goodness 0, the initial guess and scale 1.0.
C9_IterationCount ==
    Returned =>
        /\ result.nIterations = hist.continued
        /\ hist.lastOutcome \in {"failed", "stalled"} =>
               result.nIterations = hist.iterations - 1
        /\ (hist.iterations = 1 /\ hist.lastOutcome = "failed") =>
               /\ result.terminationReason = "NoPairings"
               /\ result.nIterations = 0
               /\ IsZero(result.goodness)
               /\ result.optimal_tf = init_guess
               /\ result.optimal_scale = 1

\* Points of a cloud in the layers that take part in matching.
MatchedPoints(cloud) ==
    SumOver(cloud.point_layers, DOMAIN cloud.point_layers \cap p.weight_pt2pt_layers)

\* The inputs that C10 is about.
C10_BadInput ==
    \/ Cardinality(DOMAIN pcs1.point_layers) # Cardinality(DOMAIN pcs2.point_layers)
    \/ MatchedPoints(pcs1) = 0 /\ pcs1.planes = 0
    \/ MatchedPoints(pcs2) = 0 /\ pcs2.planes = 0

\* C10: with a different number of layers in the two clouds, or a cloud with
\* no matched point and no plane, align aborts before the matching
\* parameters are prepared and before any matcher or solver call, and writes
\* no termination reason.
C10_FatalPreconditions ==
    C10_BadInput =>
        /\ pc \in {"start", "aborted"}
        /\ ~hist.prepared
        /\ state.mps = EmptyMap
        /\ hist.matcherCalls = 0
        /\ hist.solverCalls = 0
        /\ result \in {Results, StaleResults}

C10_Witness ==
    /\ pc = "aborted"
    /\ abortAt = "ASSERT_pointcount2"
    /\ Cardinality(DOMAIN pcs1.point_layers) = 2
    /\ MatchedPoints(pcs1) > 0


\* C11 (as claimed): when the two clouds do not have the same set of layer
\* names, no ICP iteration is executed.
C11_SameLayerNamesChecked ==
    DOMAIN pcs1.point_layers # DOMAIN pcs2.point_layers =>
        /\ hist.iterations = 0
        /\ hist.matcherCalls = 0
        /\ pc \in {"start", "aborted"}

\* A layer name present in both clouds has different sizes on the two sides.
SizeMismatch ==
    \E L \in DOMAIN pcs1.point_layers \cap DOMAIN pcs2.point_layers :
        pcs1.point_layers[L] # pcs2.point_layers[L]

\* A layer of the first cloud that the weights list is missing in the second.
WeightedLayerMissing ==
    \E L \in DOMAIN pcs1.point_layers \cap p.weight_pt2pt_layers :
        L \notin DOMAIN pcs2.point_layers

PlaneOnly ==
    /\ \A L \in DOMAIN pcs1.point_layers \cap p.weight_pt2pt_layers :
          L = PT_LAYER_PLANE_CENTROIDS
    /\ \A L \in DOMAIN pcs2.point_layers \cap p.weight_pt2pt_layers :
          L = PT_LAYER_PLANE_CENTROIDS
    /\ pcs1.planes > 0
    /\ pcs2.planes > 0

\* C20 (as claimed): a plane-only registration that passes the checks of
\* align's entry does not abort; it returns one of the three termination
\* reasons and goodness 0.
C20_PlaneOnlyReturns ==
    PlaneOnly =>
        /\ pc = "aborted" =>
               abortAt \in {"ASSERT_EQUAL_layers", "out_of_range_pcs2_at"}
        /\ pc \in {"prepare", "loop", "iter_check", "post", "done"} =>
               state.layerOfLargestPc = ""
        /\ Returned =>
               /\ result.terminationReason \in {"MaxIterations", "Stalled", "NoPairings"}
               /\ IsZero(result.goodness)

\* ------------------------------------------- properties of the matcher
MatchReturned == mhist.calls > 0

\* Sum of the counts of a sequence of weight records <<count, weight>>.
RECURSIVE SumOfCounts(_)
SumOfCounts(records) ==
    IF records = << >> THEN 0
    ELSE Head(records)[1] + SumOfCounts(Tail(records))

\* Number of pairings of one layer in a sequence of pairings.
PairingsOfLayer(pairings, name) ==
    Cardinality({i \in 1..Len(pairings) : pairings[i] = name})

\* C13 (as claimed): after every call of match, for every weight
\* configuration, the empty one included, the counts of the records of
\* point_weights add up to the number of point pairings.
C13_WeightCountsSum ==
    MatchReturned =>
        SumOfCounts(matchOut.point_weights) = Len(matchOut.paired_points)

\* C13 (amended): after every call of match with a non-empty weight
\* configuration the counts of the records of point_weights add up to the
\* number of point pairings, each record counting the pairings of its own
\* layer; with the empty configuration point_weights is empty whatever the
\* searches found.
C13_WeightCountsSumWhenWeighted ==
    MatchReturned =>
        /\ DOMAIN weight_pt2pt_layers # {} =>
               SumOfCounts(matchOut.point_weights) = Len(matchOut.paired_points)
        /\ DOMAIN weight_pt2pt_layers = {} => matchOut.point_weights = << >>
        /\ \A i \in 1..Len(matchOut.point_weights) :
               \E L \in DOMAIN weight_pt2pt_layers :
                   /\ matchOut.point_weights[i][1] =
                          PairingsOfLayer(matchOut.paired_points, L)
                   /\ matchOut.point_weights[i][1] > 0
                   /\ matchOut.point_weights[i][2] = weight_pt2pt_layers[L]

C13_Witness ==
    /\ MatchReturned
    /\ DOMAIN weight_pt2pt_layers # {}
    /\ Len(matchOut.point_weights) >= 2
    /\ Len(matchOut.paired_points) > Len(matchOut.point_weights)

\* The layers that match has to search: in the global cloud, in the local
\* cloud, and listed when there are weights.
LayersToSearch ==
    {L \in DOMAIN pcs1.point_layers \cap DOMAIN pcs2.point_layers :
        DOMAIN weight_pt2pt_layers = {} \/ L \in DOMAIN weight_pt2pt_layers}

\* C14: a call of match runs the per-layer search exactly once for each layer
\* that is in the global cloud, in the local cloud and (there are no weights
\* or it is listed), and for no other layer; every other layer contributes no
\* pairing, and the pairings are exactly what the searches found.
C14_SearchedLayers ==
    MatchReturned =>
        \A L \in LayerNames :
            /\ mhist.searched[L] = IF L \in LayersToSearch THEN 1 ELSE 0
            /\ L \notin LayersToSearch =>
                   PairingsOfLayer(matchOut.paired_points, L) = 0
            /\ L \in LayersToSearch =>
                   PairingsOfLayer(matchOut.paired_points, L) = mhist.found[L]

C14_Witness ==
    /\ MatchReturned
    /\ DOMAIN weight_pt2pt_layers # {}
    /\ \E L \in DOMAIN pcs1.point_layers : L \notin DOMAIN pcs2.point_layers
    /\ \E L \in DOMAIN pcs1.point_layers \cap DOMAIN pcs2.point_layers :
           /\ L \notin DOMAIN weight_pt2pt_layers
           /\ pcs2.point_layers[L] > 0
    /\ \E L \in LayersToSearch : mhist.found[L] > 0

\* ------------------------- properties of transform_local_to_global
\* The last call took the branch of the random subset.
Subsampled ==
    /\ tl.done
    /\ tl.maxLocalPoints > 0
    /\ Len(tl.pcLocal) > tl.maxLocalPoints

\* C15 (as claimed): in the subsampled case exactly maxLocalPoints points are
\* emitted, their indices are pairwise distinct and are the first
\* maxLocalPoints entries of the shuffled permutation of the whole range
\* [0, localCount), and output position k holds the transform of the point at
\* the k-th selected index.
C15_SubsampleOfWholeRange ==
    Subsampled =>
        /\ Len(tl.r.locals) = tl.maxLocalPoints
        /\ Len(tl.r.idxs) = tl.maxLocalPoints
        /\ \A j, k \in 1..Len(tl.r.idxs) : j # k => tl.r.idxs[j] # tl.r.idxs[k]
        /\ tl.r.idxs =
               SubSeq(Shuffle(Iota(Len(tl.pcLocal)),
                              EngineSeed(tl.localPointsSampleSeed, tl.now)),
                      1, tl.maxLocalPoints)
        /\ \A k \in 1..Len(tl.r.idxs) :
               tl.r.locals[k] = composePoint(tl.localPose, tl.pcLocal[tl.r.idxs[k] + 1])

\* What the code does instead: whatever the seed, the selected indices are a
\* permutation of [0, maxLocalPoints).
C15_OnlyLeadingIndices ==
    Subsampled =>
        {tl.r.idxs[k] : k \in 1..Len(tl.r.idxs)} = 0..(tl.maxLocalPoints - 1)

\* The two remembered calls were given the same arguments.
SameArguments ==
    /\ tl.done
    /\ tlFirst.done
    /\ tl.pcLocal = tlFirst.pcLocal
    /\ tl.localPose = tlFirst.localPose
    /\ tl.maxLocalPoints = tlFirst.maxLocalPoints
    /\ tl.localPointsSampleSeed = tlFirst.localPointsSampleSeed

\* C16: two calls with the same cloud, pose, maxLocalPoints and the same
\* non-zero seed return the same indices, the same transformed coordinates
\* and the same bounding box, whatever the clock reads at each call and
\* whatever calls were made in between.
C16_SeededCallsAgree ==
    (SameArguments /\ tl.localPointsSampleSeed # 0) =>
        /\ tl.r.idxs = tlFirst.r.idxs
        /\ tl.r.locals = tlFirst.r.locals
        /\ tl.r.localMin = tlFirst.r.localMin
        /\ tl.r.localMax = tlFirst.r.localMax

C16_Witness ==
    /\ SameArguments
    /\ Subsampled
    /\ tl.maxLocalPoints >= 2
    /\ tl.localPointsSampleSeed # 0
    /\ tl.now # tlFirst.now

\* The c-th coordinates of the points emitted by the last call.
EmittedCoords(c) == {tl.r.locals[k][c] : k \in 1..Len(tl.r.locals)}

\* C17: the bounding box that transform_local_to_global returns is, in each
\* coordinate, the least and the greatest value over exactly the points put
\* in the output: all the transformed points in the full case, the selected
\* ones in the subsampled case. With no point in the output the box is the
\* one of a fresh result.
C17_BoundingBoxOfEmitted ==
    tl.done =>
        \A c \in 1..3 :
            IF tl.r.locals = << >>
            THEN /\ tl.r.localMin[c] = TransformedLocalPointCloud.localMin[c]
                 /\ tl.r.localMax[c] = TransformedLocalPointCloud.localMax[c]
            ELSE /\ tl.r.localMin[c] \in EmittedCoords(c)
                 /\ tl.r.localMax[c] \in EmittedCoords(c)
                 /\ \A v \in EmittedCoords(c) :
                        tl.r.localMin[c] <= v /\ v <= tl.r.localMax[c]

\* A subsampled call whose skipped points would have widened the box.
C17_Witness ==
    /\ Subsampled
    /\ \E i \in 1..Len(tl.pcLocal), c \in 1..3 :
           LET v == composePoint(tl.localPose, tl.pcLocal[i])[c]
           IN v < tl.r.localMin[c] \/ v > tl.r.localMax[c]
    /\ \E c \in 1..3 : tl.r.localMin[c] < tl.r.localMax[c]

\* ------------------------------------------- properties of the decimation
\* ceil(a / b) for b > 0.
Ceil(a, b) == (a + b - 1) \div b

\* C18 (as claimed): for an ordinary layer of N points and maxPairsPerLayer = K
\* with 1 <= K < N, the number of points probed in one iteration with the
\* prepared stride, ceil(N / stride), never exceeds K.
C18_ProbesAtMostK ==
    (dec.done /\ 1 <= dec.K /\ dec.K < dec.N) =>
        /\ dec.probes = Ceil(dec.N, dec.stride)
        /\ dec.probes <= dec.K

\* C19 (as claimed): for 1 <= K < N the stride that prepareMatchingParams
\* stores is ceil(N / K), and for every N >= 0 and K >= 1 it is at least 1.
C19_StrideIsCeil ==
    dec.done =>
        /\ (1 <= dec.K /\ dec.K < dec.N) => dec.stride = Ceil(dec.N, dec.K)
        /\ dec.stride >= 1

\* What the code stores: the quotient rounded down, and 1 at least.
C19_StrideIsFloor ==
    dec.done =>
        /\ dec.stride = Max(1, dec.N \div dec.K)
        /\ dec.stride >= 1
        /\ dec.probes = Ceil(dec.N, dec.stride)

\* ------------------------------------------------- termination of align
\* The call passed the preconditions of lines 35-54.
PassedPreconditions == pc \in {"prepare", "loop", "iter_check", "post", "done"}

\* The part of C21 that holds of the code: no call runs more iterations than
\* maxIterations, and a call that returns reports a count within the cap.
C21_IterationsBounded ==
    /\ hist.iterations <= Max(p.maxIterations, 0)
    /\ Returned => (0 <= result.nIterations /\ result.nIterations <= p.maxIterations)

\* Every call comes to an end, by a return or by an exception.
C21_ComesToAnEnd == <>(pc \in {"done", "aborted"})

\* C21 (as claimed): every call of align that passes its preconditions runs
\* at most maxIterations iterations and then returns, with
\* 0 <= result.nIterations <= maxIterations, whatever the matchers and the
\* solver do.
C21_TerminatesAndReturns ==
    /\ [](hist.iterations <= p.maxIterations)
    /\ [](Returned => (0 <= result.nIterations /\ result.nIterations <= p.maxIterations))
    /\ [](hist.prepared => pc # "aborted")
    /\ (PassedPreconditions ~> Returned)

\* --------------------------------------------- properties of concurrent calls
\* The frame at the end of the same call executed alone.
RECURSIVE RunAlone(_)
RunAlone(c) == IF CallOver(c) THEN c ELSE RunAlone(StepOfCall(c))

\* The call of thread i ended as the same call executed alone ends.
AsAlone(i) ==
    LET a == RunAlone(CallFrame(calls[i].init_guess, calls[i].given))
    IN /\ calls[i].pc = a.pc
       /\ calls[i].abortAt = a.abortAt
       /\ calls[i].result = a.result

\* A step changes the frame of one call only, and makes of it what the step
\* of align makes of that frame alone.
OwnStepOnly ==
    \A i \in Callers :
        calls'[i] # calls[i] =>
            /\ \A j \in Callers \ {i} : calls'[j] = calls[j]
            /\ [calls'[i] EXCEPT !.overlapped = FALSE] =
                   [StepOfCall(calls[i]) EXCEPT !.overlapped = FALSE]

\* C22: two calls of align interleaved at any step, each with its own state
\* and Results object, sharing the clouds, the parameters and the matchers
\* read-only, each end with the Results (termination reason, iteration count,
\* pose, scale, goodness) of the same call executed alone, and no step of one
\* call reads or writes the state or the Results of the other.
C22_ConcurrentCallsAsAlone ==
    /\ [](\A i \in Callers : CallOver(calls[i]) => AsAlone(i))
    /\ [][OwnStepOnly]_vars

C22_Witness ==
    /\ \A i \in Callers :
           /\ calls[i].pc = "done"
           /\ calls[i].overlapped
           /\ calls[i].result.nIterations >= 1
    /\ calls[1].result # calls[2].result
    /\ calls[1].given = StaleResults

\* ------------------------------------------- properties of layerOfLargestPc
\* prepareMatchingParams has run.
Prepared == pc \in {"loop", "iter_check", "post", "done"}

\* The ordinary layers of the first cloud that the weights list.
OrdinaryListedLayers ==
    {L \in DOMAIN pcs1.point_layers \cap p.weight_pt2pt_layers :
        L # PT_LAYER_PLANE_CENTROIDS}

\* Position of a layer name in the iteration order of the layers.
OrderOf(L) == CHOOSE i \in 1..Len(LayerOrder) : LayerOrder[i] = L

\* C25: after prepareMatchingParams, layerOfLargestPc is an ordinary layer of
\* the first cloud that weight_pt2pt_layers lists, with the greatest point
\* count among such layers, the first of them in iteration order on ties; it
\* is empty exactly when no such layer has a point; the plane-centroid layer
\* and the unlisted layers are never selected.
C25_LayerOfLargestPc ==
    Prepared =>
        /\ state.layerOfLargestPc = "" <=>
               \A L \in OrdinaryListedLayers : pcs1.point_layers[L] = 0
        /\ state.layerOfLargestPc # "" =>
               /\ state.layerOfLargestPc \in OrdinaryListedLayers
               /\ \A L \in OrdinaryListedLayers :
                      /\ pcs1.point_layers[L] <= pcs1.point_layers[state.layerOfLargestPc]
                      /\ OrderOf(L) < OrderOf(state.layerOfLargestPc) =>
                             pcs1.point_layers[L] < pcs1.point_layers[state.layerOfLargestPc]

\* Two ordinary listed layers tie, and the plane-centroid layer is larger.
C25_Witness ==
    /\ Prepared
    /\ state.layerOfLargestPc = PT_LAYER_EDGES
    /\ OrdinaryListedLayers = {PT_LAYER_EDGES, PT_LAYER_RAW}
    /\ pcs1.point_layers[PT_LAYER_RAW] = pcs1.point_layers[PT_LAYER_EDGES]
    /\ PT_LAYER_PLANE_CENTROIDS \in DOMAIN pcs1.point_layers \cap p.weight_pt2pt_layers
    /\ pcs1.point_layers[PT_LAYER_PLANE_CENTROIDS] > pcs1.point_layers[PT_LAYER_EDGES]

\* ------------------------------------ properties of the weight records
\* The records that the layers searched, taken in the order in which match
\* processes them from the i-th on, have to leave: one for each layer that
\* has pairings in the output, with the number of its pairings and its weight.
RECURSIVE RecordsFrom(_)
RecordsFrom(i) ==
    IF i > Len(LayerOrder) THEN << >>
    ELSE LET L == LayerOrder[i]
             n == PairingsOfLayer(matchOut.paired_points, L)
         IN (IF L \in LayersToSearch /\ n > 0
             THEN << <<n, weight_pt2pt_layers[L]>> >>
             ELSE << >>) \o RecordsFrom(i + 1)

\* C24: with a non-empty weight configuration the weight records are, in the
\* order in which the layers are processed, one record (n, weight of the
\* layer) for each layer that contributed n > 0 pairings, n counting the
\* pairings of that layer only, and none for a layer that contributed no
\* pairing; with an empty configuration there is no record.
C24_WeightRecordsInOrder ==
    MatchReturned =>
        /\ Len(matchOut.point_weights) <= Cardinality(LayersToSearch)
        /\ matchOut.point_weights =
               IF DOMAIN weight_pt2pt_layers = {} THEN << >> ELSE RecordsFrom(1)

\* Three layers searched, the middle one without pairings, the other two
\* with different numbers of pairings and different weights.
C24_Witness ==
    /\ MatchReturned
    /\ Cardinality(LayersToSearch) = 3
    /\ Len(matchOut.point_weights) = 2
    /\ matchOut.point_weights[1][1] # matchOut.point_weights[2][1]
    /\ matchOut.point_weights[1][2] # matchOut.point_weights[2][2]
    /\ mhist.found[PT_LAYER_PLANE_CENTROIDS] = 0

\* C26: match discards at entry what the output object held, so a call on the
\* same matcher and clouds whose searches find what they found in the call
\* before returns the same Pairings as that call, with nothing accumulated
\* and nothing left of the content given to the first call; and match changes
\* neither the weight configuration of the matcher nor the clouds.
C26_MatchStateless ==
    /\ [](MatchReturned =>
            /\ Len(matchOut.paired_points) = SumOver(mhist.found, LayerNames)
            /\ weight_pt2pt_layers = mhist.weightsAtEntry
            /\ (mhist.calls >= 2 /\ mhist.found = mhist.prevFound) =>
                   matchOut = mhist.prevOut)
    /\ [][UNCHANGED <<weight_pt2pt_layers, pcs1, pcs2>>]_vars

\* A second call that finds again the pairings of the first, in two layers.
C26_Witness ==
    /\ mhist.calls >= 2
    /\ mhist.found = mhist.prevFound
    /\ Len(matchOut.paired_points) >= 2
    /\ Len(matchOut.point_weights) >= 1
    /\ matchOut.paired_points[1] # PT_LAYER_RAW

====
